---- MODULE Spec2Model ----
(***************************************************************************)
(* DataScout: the crawl controller (ScraperService), the redux slice that   *)
(* holds RunState (scraperSlice) and the middleware that connects them.     *)
(*                                                                         *)
(* JavaScript runs one macrotask at a time: the code between two awaits of  *)
(* a network call or a timer runs without interleaving.  Each action below  *)
(* is one such segment: a dispatch from outside with everything the         *)
(* middleware and the service do synchronously, or the continuation of one  *)
(* crawl loop after its pending axios.get / setTimeout settles.             *)
(***************************************************************************)
EXTENDS Integers, Sequences, FiniteSets, TLC

VARIABLES store, svc, loops, nRuns, used, call

vars == <<store, svc, loops, nRuns, used, call>>

----------------------------------------------------------------------------
(* Bounds of the model *)

\* startScraping invocations of the service followed in one behaviour
MaxRuns == 2
\* largest pagination.maxPages a plan is given
MaxPages == 2
\* largest number of records one page yields
MaxItems == 1
\* longest selector list of a plan
MaxSelectors == 1
\* plan-editing dispatches followed in one behaviour
MaxEdits == 3
\* failing responses of axios.get followed in one behaviour
MaxFails == 4

\* longest result list of a selector given to structureResults
MaxResults == 3
\* most nodes or pattern matches a selector finds in a page
MaxFound == 2
\* largest page index given to getNextPageUrl
MaxPageNum == 12

(* Program constants *)

\* serviceConfig.maxRetries
ServiceMaxRetries == 3
\* initialState.config.rateLimit
InitRequestDelay == 1000
InitRetries == 3
InitConcurrentRequests == 1

NULL == "null"
NOW == "time"

----------------------------------------------------------------------------
(* Addresses are sequences of tokens; '' is the empty sequence.  A null     *)
(* address and '' are both falsy and the code only tests truthiness, so     *)
(* null is represented by the empty sequence too.                           *)

PAGE == "{page}"

Truthy(u) == u # <<>>

Digits == <<"0", "1", "2", "3", "4", "5", "6", "7", "8", "9">>

RECURSIVE toString(_)
\* Number.prototype.toString: the decimal digits of n >= 0
toString(n) ==
    IF n < 10 THEN <<Digits[n + 1]>>
    ELSE toString(n \div 10) \o <<Digits[(n % 10) + 1]>>

RECURSIVE IndexOf(_, _, _)
IndexOf(s, tok, i) ==
    IF i > Len(s) THEN 0
    ELSE IF s[i] = tok THEN i
    ELSE IndexOf(s, tok, i + 1)

\* String.prototype.replace with a string pattern: first occurrence only
replace(s, tok, by) ==
    LET k == IndexOf(s, tok, 1)
    IN  IF k = 0 THEN s
        ELSE SubSeq(s, 1, k - 1) \o by \o SubSeq(s, k + 1, Len(s))

----------------------------------------------------------------------------
(* Error messages *)

MsgConfig == "URL and at least one selector are required"
MsgBadGateway == "Proxy error: Bad Gateway"
MsgGatewayTimeout == "Proxy error: Gateway Timeout"
MsgProxyDown == "Proxy server connection failed. Make sure the proxy server is running."
MsgFetchFailed == "Failed to fetch content from url"
MsgSelector == "Invalid regular expression"

\* the kinds of failure of axios.get
FailKinds == {"502", "504", "network", "other"}

\* error.message of the axios error
AxiosMessage(kind) ==
    CASE kind = "502" -> "Request failed with status code 502"
      [] kind = "504" -> "Request failed with status code 504"
      [] kind = "network" -> "Network Error"
      [] OTHER -> "Request failed with status code 500"

----------------------------------------------------------------------------
(* The redux slice *)

initialState ==
    [config |-> [url |-> <<>>,
                 selectors |-> <<>>,
                 pagination |-> [enabled |-> FALSE, type |-> "button",
                                 selector |-> <<>>, maxPages |-> 1],
                 rateLimit |-> [requestDelay |-> InitRequestDelay,
                                concurrentRequests |-> InitConcurrentRequests,
                                retries |-> InitRetries]],
     status |-> "idle",
     data |-> <<>>,
     error |-> NULL,
     progress |-> [current |-> 0, total |-> 0, startTime |-> NULL, endTime |-> NULL],
     history |-> <<>>]

setUrl(s, u) == [s EXCEPT !.config.url = u]

RECURSIVE MaxId(_)
MaxId(sels) ==
    IF sels = <<>> THEN 0
    ELSE LET m == MaxId(Tail(sels))
         IN  IF Head(sels).id > m THEN Head(sels).id ELSE m

\* uuidv4(): an id no selector of the list has
uuidv4(s) == MaxId(s.config.selectors) + 1

addSelector(s, sel) ==
    [s EXCEPT !.config.selectors = Append(@, [id |-> uuidv4(s), type |-> sel.type])]

\* selectors.findIndex(selector => selector.id === id), 0 for -1
RECURSIVE findIndex(_, _)
findIndex(sels, id) ==
    IF sels = <<>> THEN 0
    ELSE IF Head(sels).id = id THEN 1
    ELSE LET k == findIndex(Tail(sels), id)
         IN  IF k = 0 THEN 0 ELSE k + 1

\* an update that adds the selector when no selector has its id
updateSelectorUpserts(s, sel) ==
    LET index == findIndex(s.config.selectors, sel.id)
    IN  IF index # 0
        THEN [s EXCEPT !.config.selectors[index] = sel]
        ELSE [s EXCEPT !.config.selectors = Append(@, sel)]

updateSelector(s, sel) ==
    LET index == findIndex(s.config.selectors, sel.id)
    IN  IF index # 0
        THEN [s EXCEPT !.config.selectors[index] = sel]
        ELSE s

removeSelector(s, id) ==
    [s EXCEPT !.config.selectors = SelectSeq(@, LAMBDA x : x.id # id)]

setPaginationConfig(s, p) == [s EXCEPT !.config.pagination = p]

setRateLimitConfig(s, r) == [s EXCEPT !.config.rateLimit = r]

\* a start that keeps the records of the run before
startScrapingKeepsData(s) ==
    [s EXCEPT !.status = "running",
              !.error = NULL,
              !.progress = [current |-> 0, total |-> 0,
                            startTime |-> NOW, endTime |-> NULL]]

startScrapingReducer(s) ==
    [s EXCEPT !.status = "running",
              !.error = NULL,
              !.data = <<>>,
              !.progress = [current |-> 0, total |-> 0,
                            startTime |-> NOW, endTime |-> NULL]]

\* a pause that also closes the progress, as stop does
pauseScrapingEndsProgress(s) == [s EXCEPT !.status = "paused", !.progress.endTime = NOW]

pauseScrapingReducer(s) == [s EXCEPT !.status = "paused"]

resumeScrapingReducer(s) == [s EXCEPT !.status = "running"]

stopScrapingReducer(s) == [s EXCEPT !.status = "idle", !.progress.endTime = NOW]

completeScraping(s) ==
    [s EXCEPT !.status = "completed",
              !.progress.endTime = NOW,
              !.history = Append(@, [id |-> Len(@) + 1,
                                     url |-> s.config.url,
                                     timestamp |-> NOW,
                                     itemCount |-> Len(s.data)])]

appendScrapedData(s, items) == [s EXCEPT !.data = @ \o items]

updateProgress(s, cur, tot) ==
    [s EXCEPT !.progress.current = cur, !.progress.total = tot]

\* a setError that marks the phase and drops the message
setErrorDropsMessage(s, msg) == [s EXCEPT !.status = "error"]

setError(s, msg) == [s EXCEPT !.status = "error", !.error = msg]

----------------------------------------------------------------------------
(* The service: the flags all crawl loops share, and one record per         *)
(* invocation of startScraping (its captured plan, its locals and the       *)
(* await it is suspended at).                                               *)

svcInit ==
    [isRunning |-> FALSE, isPaused |-> FALSE, shouldStop |-> FALSE,
     currentPage |-> 1, totalItems |-> 0, processedItems |-> 0]

Runs == 1..MaxRuns

\* A loop that has not been invoked yet.  attempts, waits, fetched,
\* appended and stopped record what the loop did: the axios.get calls and
\* the backoff waits of the page being fetched, the number of scrapeUrl
\* calls, the number of pages whose records it appended, and the
\* phase and the position of the loop at which stop() was requested while
\* the loop was active.
idleLoop ==
    [pc |-> "idle",
     url |-> <<>>,
     pagination |-> initialState.config.pagination,
     rateLimit |-> initialState.config.rateLimit,
     target |-> <<>>,
     nextPageUrl |-> <<>>,
     pagesScraped |-> 0,
     retryCount |-> 0,
     attempts |-> 0,
     waits |-> <<>>,
     fetched |-> 0,
     appended |-> 0,
     stopped |-> "no",
     stoppedAt |-> "no"]

Active(l) == l.pc \in {"fetch", "backoff", "pause", "delay"}

\* handleError: every shape of error ends in one setError dispatch
handleError(w, msg) == [w EXCEPT !.store = setError(@, msg)]

\* fetchUrl up to its await of axios.get
fetchUrl(w, url, retryCount) ==
    [w EXCEPT !.l.pc = "fetch",
              !.l.target = url,
              !.l.retryCount = retryCount,
              !.l.attempts = IF retryCount = 0 THEN 1 ELSE @ + 1,
              !.l.waits = IF retryCount = 0 THEN <<>> ELSE @]

\* a scrapeUrl that requests two pages at once
scrapeUrlPair(w, url) ==
    fetchUrl([w EXCEPT !.l.fetched = @ + 2], url, 0)

\* scrapeUrl up to its first await
scrapeUrl(w, url) ==
    fetchUrl([w EXCEPT !.l.fetched = @ + 1], url, 0)

\* startScraping, lines 125-133: the normal exit of the try block
Finish(w) ==
    LET w1 == IF ~w.svc.shouldStop
              THEN [w EXCEPT !.store = completeScraping(@)]
              ELSE w
    IN  [w1 EXCEPT !.svc.isRunning = FALSE, !.l.pc = "done"]

\* a scrapeUrl that reports the missing body and lets the loop exit normally
AbortThenComplete(w, msg) == Finish(handleError(w, msg))

\* scrapeUrl's catch, startScraping's catch and finally
Abort(w, msg) ==
    LET w1 == handleError(handleError(w, msg), msg)
    IN  [w1 EXCEPT !.svc.isRunning = FALSE, !.l.pc = "done"]

\* a resolver that stays on the current address in the unimplemented modes
getNextPageUrlStays(currentUrl, pagination, nextPageNum) ==
    IF ~pagination.enabled \/ ~Truthy(pagination.selector) THEN <<>>
    ELSE IF pagination.type = "url"
         THEN replace(pagination.selector, PAGE, toString(nextPageNum))
         ELSE currentUrl

getNextPageUrl(currentUrl, pagination, nextPageNum) ==
    IF ~pagination.enabled \/ ~Truthy(pagination.selector) THEN <<>>
    ELSE CASE pagination.type = "url" ->
                  replace(pagination.selector, PAGE, toString(nextPageNum))
           [] pagination.type = "button" -> <<>>
           [] pagination.type = "infinite" -> <<>>
           [] OTHER -> <<>>

\* the while condition of the pagination loop
LoopCond(w) ==
    /\ Truthy(w.l.nextPageUrl)
    /\ w.svc.isRunning
    /\ ~w.svc.shouldStop
    /\ (w.l.pagination.maxPages = 0 \/ w.l.pagesScraped < w.l.pagination.maxPages)

\* a loop that asks for the index after the next
GetNextSkips(w) ==
    LET nxt == getNextPageUrl(w.l.nextPageUrl, w.l.pagination, w.l.pagesScraped + 2)
        w1 == [w EXCEPT !.l.nextPageUrl = nxt]
    IN  IF Truthy(nxt)
        THEN scrapeUrl([w1 EXCEPT !.l.pagesScraped = @ + 1], nxt)
        ELSE Finish(w1)

\* lines 115-121: resolve the next address and scrape it
GetNext(w) ==
    LET nxt == getNextPageUrl(w.l.nextPageUrl, w.l.pagination, w.l.pagesScraped + 1)
        w1 == [w EXCEPT !.l.nextPageUrl = nxt]
    IN  IF Truthy(nxt)
        THEN scrapeUrl([w1 EXCEPT !.l.pagesScraped = @ + 1], nxt)
        ELSE Finish(w1)   \* the while condition fails on the null address

\* a rate limit that never waits
applyRateLimitNoWait(w) == GetNext(w)

\* applyRateLimit and what follows it
applyRateLimit(w) ==
    IF w.l.rateLimit.requestDelay > 0
    THEN [w EXCEPT !.l.pc = "delay"]
    ELSE GetNext(w)

\* one evaluation of the while condition and the pause check under it
LoopTop(w) ==
    IF LoopCond(w)
    THEN IF w.svc.isPaused
         THEN [w EXCEPT !.l.pc = "pause"]
         ELSE applyRateLimit(w)
    ELSE Finish(w)

\* startScraping after scrapeUrl returned normally
AfterScrape(w) ==
    IF w.l.pagesScraped = 0
    THEN \* the initial scrape, lines 85-88
         IF w.l.pagination.enabled /\ Truthy(w.l.pagination.selector)
         THEN LoopTop([w EXCEPT !.l.nextPageUrl = w.l.url, !.l.pagesScraped = 1])
         ELSE Finish(w)
    ELSE LoopTop(w)

\* what processSelectors reports through handleError: applySelector
\* catches the exception of a selector and the page is structured without it
processSelectors(w, sel) ==
    IF sel = "selectorThrows" THEN handleError(w, MsgSelector) ELSE w

Items(run, page, n) == [k \in 1..n |-> [run |-> run, page |-> page]]

\* scrapeUrl after fetchUrl returned a body, up to and including the
\* dispatch of updateProgress, lines 174-183
scrapeUrlProgress(w, n, sel) ==
    LET w1 == processSelectors(w, sel)
        w2 == [w1 EXCEPT !.svc.processedItems = @ + n, !.svc.totalItems = @ + n]
    IN  [w2 EXCEPT !.store = updateProgress(@, w2.svc.processedItems,
                                               w2.svc.totalItems)]

\* scrapeUrl after fetchUrl returned a body, lines 174-188
scrapeUrlBody(w, run, n, sel) ==
    LET w3 == scrapeUrlProgress(w, n, sel)
    IN  [w3 EXCEPT !.store = appendScrapedData(@, Items(run, w.l.fetched, n)),
                   !.l.appended = @ + 1]

\* the states the store notifies its subscribers with while scrapeUrl
\* handles a body: one per dispatch (setError of a throwing selector,
\* updateProgress, appendScrapedData)
Notified(w, run, n, sel) ==
    (IF sel = "selectorThrows" THEN <<processSelectors(w, sel).store>> ELSE <<>>)
    \o <<scrapeUrlProgress(w, n, sel).store, scrapeUrlBody(w, run, n, sel).store>>

\* the retry bound of fetchUrl, line 234
maxRetries == IF ServiceMaxRetries # 0 THEN ServiceMaxRetries ELSE 3

\* a backoff that grows by one second per retry
backoffDelayLinear(retryCount) == (retryCount + 1) * 1000

\* Math.pow(2, retryCount) * 1000, line 236
backoffDelay(retryCount) == (2 ^ retryCount) * 1000

\* fetchUrl's catch block, lines 222-244
fetchUrlCatch(w, kind) ==
    LET w1 == CASE kind = "502" -> handleError(w, MsgBadGateway)
                [] kind = "504" -> handleError(w, MsgGatewayTimeout)
                [] kind = "network" -> handleError(w, MsgProxyDown)
                [] OTHER -> w
    IN  IF w.l.retryCount < maxRetries
        THEN [w1 EXCEPT !.l.pc = "backoff",
                        !.l.waits = Append(@, backoffDelay(w.l.retryCount))]
        ELSE Abort(handleError(w1, AxiosMessage(kind)), MsgFetchFailed)

\* startScraping(config) up to its first await
startScraping(w, config) ==
    IF ~Truthy(config.url) \/ Len(config.selectors) = 0
    THEN handleError(w, MsgConfig)
    ELSE LET w1 == [w EXCEPT !.svc = [isRunning |-> TRUE, isPaused |-> FALSE,
                                      shouldStop |-> FALSE, currentPage |-> 1,
                                      totalItems |-> 0, processedItems |-> 0],
                             !.l = [idleLoop EXCEPT !.url = config.url,
                                                    !.pagination = config.pagination,
                                                    !.rateLimit = config.rateLimit]]
         IN  scrapeUrl(w1, config.url)

World(l) == [store |-> store, svc |-> svc, l |-> l]

\* the world after a segment of loop i; the locals of an invocation that
\* has returned are gone
Commit(i, w) ==
    /\ store' = w.store
    /\ svc' = w.svc
    /\ loops' = [loops EXCEPT ![i] =
                    IF w.l.pc = "done"
                    THEN [idleLoop EXCEPT !.pc = "done"]
                    ELSE w.l]
    /\ UNCHANGED <<nRuns, call>>

----------------------------------------------------------------------------
(* Extraction: applySelector and structureResults.  A page is seen through  *)
(* what a selector finds in it: the nodes a css selector matches, in        *)
(* document order, or the matches of a pattern in the raw body, in order of *)
(* occurrence.  Text is a sequence of characters, " " the white space.      *)

\* null and undefined among extracted values (a value is a sequence)
NullValue == <<NULL>>

RECURSIVE trimStart(_)
trimStart(t) == IF t # <<>> /\ Head(t) = " " THEN trimStart(Tail(t)) ELSE t

RECURSIVE trimEnd(_)
trimEnd(t) ==
    IF t # <<>> /\ t[Len(t)] = " " THEN trimEnd(SubSeq(t, 1, Len(t) - 1)) ELSE t

\* String.prototype.trim
trim(t) == trimEnd(trimStart(t))

\* extractValueFromElement: 'text', 'html' or the name of an attribute
extractValueFromElement(el, attribute) ==
    CASE attribute = "text" -> trim(el.text)
      [] attribute = "html" -> IF el.html # <<>> THEN el.html ELSE NullValue
      [] OTHER -> IF el.attr # NullValue /\ el.attr # <<>> THEN el.attr ELSE NullValue

\* the last of the matched nodes
last(elements) == elements[Len(elements)]

\* elements.first()
first(elements) == elements[1]

RECURSIVE each(_, _, _)
\* elements.each: the values of the nodes that have one, in document order
each(elements, name, attribute) ==
    IF elements = <<>> THEN <<>>
    ELSE LET value == extractValueFromElement(Head(elements), attribute)
             rest == each(Tail(elements), name, attribute)
         IN  IF value # NullValue
             THEN <<[name |-> name, value |-> value]>> \o rest
             ELSE rest

\* applySelector: found is what selector.value finds in the page
applySelector(found, selector) ==
    CASE selector.type = "css" ->
            IF Len(found) = 0 THEN <<>>
            ELSE IF selector.multiple
            THEN each(found, selector.name, selector.attribute)
            ELSE LET value == extractValueFromElement(first(found),
                                                      selector.attribute)
                 IN  IF value # NullValue
                     THEN <<[name |-> selector.name, value |-> value]>>
                     ELSE <<>>
      [] selector.type = "regex" ->
            IF Len(found) > 0
            THEN IF selector.multiple
                 THEN <<[name |-> selector.name, value |-> found]>>
                 ELSE <<[name |-> selector.name, value |-> found[1]]>>
            ELSE <<>>
      [] OTHER -> <<>>

\* a maxLength that starts from 0
maxLengthFromZero(selectorResults) ==
    LET lens == {0} \cup {Len(selectorResults[key]) : key \in DOMAIN selectorResults}
    IN  CHOOSE m \in lens : \A n \in lens : n <= m

\* structureResults, lines 375-380: the longest result list, 1 at least
maxLength(selectorResults) ==
    LET lens == {1} \cup {Len(selectorResults[key]) : key \in DOMAIN selectorResults}
    IN  CHOOSE m \in lens : \A n \in lens : n <= m

\* a structurer that never repeats the only result of a selector
structureResultsNoBroadcast(selectorResults) ==
    [i \in 1..maxLength(selectorResults) |->
        [key \in DOMAIN selectorResults |->
            IF i <= Len(selectorResults[key])
            THEN selectorResults[key][i].value
            ELSE NullValue]]

\* structureResults: record i (from 1) of the page
structureResults(selectorResults) ==
    [i \in 1..maxLength(selectorResults) |->
        [key \in DOMAIN selectorResults |->
            LET results == selectorResults[key]
            IN  IF i <= Len(results) THEN results[i].value
                ELSE IF Len(results) = 1 THEN results[1].value
                ELSE NullValue]]

----------------------------------------------------------------------------
(* Inputs *)

UrlInputs == {<<"a">>, <<"b">>}

PaginationInputs ==
    {[enabled |-> TRUE, type |-> "url", selector |-> <<"p", PAGE>>,
           maxPages |-> n] : n \in 1..MaxPages}
    \cup {[enabled |-> TRUE, type |-> t, selector |-> <<"next">>,
           maxPages |-> MaxPages] : t \in {"button", "infinite"}}
    \cup {[enabled |-> TRUE, type |-> "url", selector |-> <<>>,
           maxPages |-> MaxPages]}

\* plans without a page limit: maxPages 0, which the loop condition reads
\* as it does an absent maxPages
UnlimitedInputs ==
    {[enabled |-> TRUE, type |-> "url", selector |-> <<"p", PAGE>>, maxPages |-> 0]}

RateLimitInputs == {[requestDelay |-> 0, concurrentRequests |-> 3, retries |-> 0]}

\* what one page's extraction can be: the number of records it yields
\* (structureResults returns at least one) and whether a selector threw
PageOutcomes ==
    {[n |-> n, sel |-> sel] : n \in 1..MaxItems, sel \in {"ok", "selectorThrows"}}

----------------------------------------------------------------------------
(* The form (ScraperForm): which controls it renders and enables.  An       *)
(* action taken with ui = TRUE is a dispatch the form makes; with           *)
(* ui = FALSE it is a dispatch on the exported store.                       *)

FormEditable == store.status \notin {"running", "paused"}
FormShowsStart == store.status \in {"idle", "completed", "error"}
FormShowsResume == store.status = "paused"
FormShowsPause == store.status = "running"
FormShowsStop == store.status \in {"running", "paused"}
PlanValid(config) == Truthy(config.url) /\ Len(config.selectors) > 0

----------------------------------------------------------------------------
(* Actions *)

\* no function of the service is being followed on its own
NoCall == [op |-> "none", arg |-> <<>>, done |-> TRUE, ret |-> <<>>]

\* a plan edit: one more of the edits followed, nothing but the store changes
Edit ==
    /\ used.edits < MaxEdits
    /\ used' = [used EXCEPT !.edits = @ + 1]
    /\ UNCHANGED <<svc, loops, nRuns, call>>

Init ==
    /\ store = initialState
    /\ svc = svcInit
    /\ loops = [i \in Runs |-> idleLoop]
    /\ nRuns = 0
    /\ used = [edits |-> 0, fails |-> 0]
    /\ call = NoCall

DispatchSetUrl(ui) ==
    \E u \in UrlInputs :
        /\ ui => FormEditable
        /\ u # store.config.url
        /\ store' = setUrl(store, u)
        /\ Edit

\* the selector types the form offers
SelectorTypes == {"css", "xpath", "regex"}

DispatchAddSelectorOf(ui, types) ==
    \E t \in types :
        /\ ui => FormEditable
        /\ Len(store.config.selectors) < MaxSelectors
        /\ store' = addSelector(store, [type |-> t])
        /\ Edit

DispatchAddSelector(ui) == DispatchAddSelectorOf(ui, {"css"})

DispatchRemoveSelector(ui) ==
    \E k \in DOMAIN store.config.selectors :
        /\ ui => FormEditable
        /\ store' = removeSelector(store, store.config.selectors[k].id)
        /\ Edit

DispatchSetPaginationConfigOf(ui, inputs) ==
    \E p \in inputs :
        /\ ui => FormEditable
        /\ p # store.config.pagination
        /\ store' = setPaginationConfig(store, p)
        /\ Edit

DispatchSetPaginationConfig(ui) == DispatchSetPaginationConfigOf(ui, PaginationInputs)

\* handleRateLimitChange: dispatch(setRateLimitConfig(...))
RateLimitChange(ui) ==
    \E r \in RateLimitInputs :
        /\ ui => FormEditable
        /\ r # store.config.rateLimit
        /\ store' = setRateLimitConfig(store, r)

DispatchSetRateLimitConfig(ui) == RateLimitChange(ui) /\ Edit

\* the same edit, not counted among the edits followed
DispatchSetRateLimitConfigAlso(ui) ==
    /\ RateLimitChange(ui)
    /\ UNCHANGED <<svc, loops, nRuns, used, call>>

\* dispatch(startScraping()): the reducer, then the middleware calls the
\* service with the plan of the new state
DispatchStart(ui) ==
    /\ ui => (FormShowsStart /\ PlanValid(store.config))
    /\ LET s1 == startScrapingReducer(store)
           w == startScraping([store |-> s1, svc |-> svc, l |-> idleLoop], s1.config)
       IN  IF w.l.pc = "idle"
           THEN /\ store' = w.store
                /\ UNCHANGED <<svc, loops, nRuns, used, call>>
           ELSE /\ nRuns < MaxRuns
                /\ store' = w.store
                /\ svc' = w.svc
                /\ loops' = [loops EXCEPT ![nRuns + 1] = w.l]
                /\ nRuns' = nRuns + 1
                /\ UNCHANGED <<used, call>>

\* dispatch(pauseScraping()): the reducer, then service.pauseScraping()
DispatchPause(ui) ==
    /\ ui => FormShowsPause
    /\ store' = pauseScrapingReducer(store)
    /\ svc' = [svc EXCEPT !.isPaused = TRUE]
    /\ UNCHANGED <<loops, nRuns, used, call>>

\* dispatch(resumeScraping()): the reducer, then service.resumeScraping()
DispatchResume(ui) ==
    /\ ui => FormShowsResume
    /\ store' = resumeScrapingReducer(store)
    /\ svc' = [svc EXCEPT !.isPaused = FALSE]
    /\ UNCHANGED <<loops, nRuns, used, call>>

\* dispatch(stopScraping()): the reducer, then service.stopScraping(), which
\* sets the flags and dispatches stopScraping() again; the reducer is
\* idempotent, so the state after the handling is that of one application
DispatchStop(ui) ==
    /\ ui => FormShowsStop
    /\ store' = stopScrapingReducer(store)
    /\ svc' = [svc EXCEPT !.shouldStop = TRUE, !.isPaused = FALSE]
    /\ loops' = [i \in Runs |->
                    IF Active(loops[i]) /\ loops[i].stopped = "no"
                    THEN [loops[i] EXCEPT !.stopped = store.status,
                                              !.stoppedAt = loops[i].pc]
                    ELSE loops[i]]
    /\ UNCHANGED <<nRuns, used, call>>

\* axios.get resolves with status 200 and a body
FetchOkWith(i, o) ==
    /\ loops[i].pc = "fetch"
    /\ UNCHANGED used
    /\ Commit(i, AfterScrape(scrapeUrlBody(World(loops[i]), i, o.n, o.sel)))

FetchOk(i) == \E o \in PageOutcomes : FetchOkWith(i, o)

\* an empty body handled like a rejected request: backoff and another attempt
FetchEmptyRetries(i) ==
    /\ loops[i].pc = "fetch"
    /\ UNCHANGED used
    /\ Commit(i, fetchUrlCatch(World(loops[i]), "other"))

\* axios.get resolves with status 200 and an empty body
FetchEmpty(i) ==
    /\ loops[i].pc = "fetch"
    /\ UNCHANGED used
    /\ Commit(i, Abort(World(loops[i]), MsgFetchFailed))

\* axios.get rejects, or resolves with a status other than 200
FetchFail(i) ==
    /\ loops[i].pc = "fetch"
    /\ used.fails < MaxFails
    /\ used' = [used EXCEPT !.fails = @ + 1]
    /\ \E kind \in FailKinds : Commit(i, fetchUrlCatch(World(loops[i]), kind))

\* the backoff timer fires: fetchUrl(url, headers, retryCount + 1)
BackoffDone(i) ==
    /\ loops[i].pc = "backoff"
    /\ UNCHANGED used
    /\ Commit(i, fetchUrl(World(loops[i]), loops[i].target, loops[i].retryCount + 1))

\* checkPause finds the pause over or a stop requested
PausePoll(i) ==
    /\ loops[i].pc = "pause"
    /\ UNCHANGED used
    /\ ~svc.isPaused \/ svc.shouldStop
    /\ Commit(i, IF svc.shouldStop
                 THEN Finish(World(loops[i]))
                 ELSE applyRateLimit(World(loops[i])))

\* the request delay timer fires
DelayDone(i) ==
    /\ loops[i].pc = "delay"
    /\ UNCHANGED used
    /\ Commit(i, GetNext(World(loops[i])))

Env ==
    \E i \in Runs :
        \/ FetchOk(i)
        \/ FetchEmpty(i)
        \/ FetchFail(i)
        \/ BackoffDone(i)
        \/ PausePoll(i)
        \/ DelayDone(i)

PlanEdits(ui) ==
    \/ DispatchSetUrl(ui)
    \/ DispatchAddSelector(ui)
    \/ DispatchRemoveSelector(ui)
    \/ DispatchSetPaginationConfig(ui)
    \/ DispatchSetRateLimitConfig(ui)

\* The application: the store is driven by the form.
Next ==
    \/ PlanEdits(TRUE)
    \/ DispatchStart(TRUE)
    \/ DispatchPause(TRUE)
    \/ DispatchResume(TRUE)
    \/ DispatchStop(TRUE)
    \/ Env

Spec == Init /\ [][Next]_vars

\* The application with every request answered and every timer firing: a
\* request in flight resolves or rejects, the backoff and delay timers fire,
\* and checkPause, polled every 500 ms, ends the wait once it finds the
\* pause over or a stop requested and keeps finding it so.
Fairness ==
    \A i \in Runs :
        /\ WF_vars(FetchOk(i) \/ FetchEmpty(i) \/ FetchFail(i))
        /\ WF_vars(BackoffDone(i))
        /\ WF_vars(PausePoll(i))
        /\ WF_vars(DelayDone(i))

SpecLive == Init /\ [][Next]_vars /\ Fairness

\* The application, with startScraping() also dispatched on the exported
\* store: in any phase and with any plan.
NextDirect ==
    \/ PlanEdits(TRUE)
    \/ DispatchStart(FALSE)
    \/ DispatchPause(TRUE)
    \/ DispatchResume(TRUE)
    \/ DispatchStop(TRUE)
    \/ Env

SpecDirect == Init /\ [][NextDirect]_vars

\* The application when every axios.get returns a body and stop is never
\* requested.
NextAllOk ==
    \/ PlanEdits(TRUE)
    \/ DispatchStart(TRUE)
    \/ DispatchPause(TRUE)
    \/ DispatchResume(TRUE)
    \/ \E i \in Runs : FetchOk(i) \/ PausePoll(i) \/ DelayDone(i)

SpecAllOk == Init /\ [][NextAllOk]_vars

\* The application with a rate limit edit on top of the edits followed,
\* when no pause and no stop is requested.
NextSerial ==
    \/ PlanEdits(TRUE)
    \/ DispatchSetRateLimitConfigAlso(TRUE)
    \/ DispatchStart(TRUE)
    \/ \E i \in Runs : FetchOk(i)
    \/ \E i \in Runs : FetchEmpty(i)
    \/ \E i \in Runs : FetchFail(i)
    \/ \E i \in Runs : BackoffDone(i)
    \/ \E i \in Runs : DelayDone(i)

SpecSerial == Init /\ [][NextSerial]_vars

\* The application when setPaginationConfig is dispatched on the exported
\* store with a plan without a page limit (the form stores 1 for an entry
\* of 0), no pause is requested and no selector throws.  Of the pages of a
\* run the first MaxFetched are followed.
MaxFetched == 4

NextPages ==
    \/ DispatchSetUrl(TRUE)
    \/ DispatchAddSelector(TRUE)
    \/ DispatchSetPaginationConfigOf(FALSE, UnlimitedInputs)
    \/ DispatchStart(TRUE)
    \/ DispatchStop(TRUE)
    \/ \E i \in Runs : /\ loops[i].fetched < MaxFetched
                        /\ FetchOkWith(i, [n |-> 1, sel |-> "ok"])
    \/ \E i \in Runs : FetchFail(i)
    \/ \E i \in Runs : BackoffDone(i)
    \/ \E i \in Runs : DelayDone(i)

SpecPages == Init /\ [][NextPages]_vars

\* The application when the selectors added are of any type the form
\* offers, every axios.get returns a body and stop is never requested.
NextAnyType ==
    \/ DispatchSetUrl(TRUE)
    \/ DispatchAddSelectorOf(TRUE, SelectorTypes)
    \/ DispatchRemoveSelector(TRUE)
    \/ DispatchSetPaginationConfig(TRUE)
    \/ DispatchStart(TRUE)
    \/ \E i \in Runs : FetchOk(i) \/ DelayDone(i)

SpecAnyType == Init /\ [][NextAnyType]_vars

\* The selector list edited through the store at any time of a run.  The
\* payloads of updateSelector and removeSelector name any id, of the list
\* or not.
MaxPlanSelectors == 3
MaxSelectorId == 4

PlanAddSelector ==
    /\ Len(store.config.selectors) < MaxPlanSelectors
    /\ uuidv4(store) <= MaxSelectorId
    /\ store' = addSelector(store, [type |-> "css"])
    /\ UNCHANGED <<svc, loops, nRuns, used, call>>

PlanUpdateSelectorOf(sel) ==
    /\ store' = updateSelector(store, sel)
    /\ UNCHANGED <<svc, loops, nRuns, used, call>>

PlanUpdateSelector ==
    \E id \in 1..MaxSelectorId, t \in {"css", "regex"} :
        PlanUpdateSelectorOf([id |-> id, type |-> t])

PlanRemoveSelectorOf(id) ==
    /\ store' = removeSelector(store, id)
    /\ UNCHANGED <<svc, loops, nRuns, used, call>>

PlanRemoveSelector == \E id \in 1..MaxSelectorId : PlanRemoveSelectorOf(id)

NextPlan ==
    \/ DispatchSetUrl(FALSE)
    \/ PlanAddSelector
    \/ PlanUpdateSelector
    \/ PlanRemoveSelector
    \/ DispatchStart(FALSE)
    \/ DispatchStop(FALSE)
    \/ \E i \in Runs : FetchOkWith(i, [n |-> 1, sel |-> "ok"])
    \/ \E i \in Runs : FetchEmpty(i)

SpecPlan == Init /\ [][NextPlan]_vars

\* The handling of one stop request, frame by frame.  call.arg counts the
\* stopScraping actions dispatched so far; MaxStack is the number of nested
\* dispatches the call stack of the engine holds.
MaxStack == 4

\* the Stop button: dispatch(stopScraping())
StopRequest(ui) ==
    /\ ui => FormShowsStop
    /\ call.done
    /\ call' = [op |-> "stopScraping", arg |-> 0, done |-> FALSE, ret |-> <<>>]
    /\ UNCHANGED <<store, svc, loops, nRuns, used>>

\* one dispatch through the middleware: next(action) runs the reducer, then
\* the service's stopScraping() sets the flags and dispatches the action
\* again from inside this frame; a dispatch the stack cannot hold throws
\* a RangeError, which unwinds every frame of the handling
StopDispatch ==
    /\ call.op = "stopScraping"
    /\ ~call.done
    /\ IF call.arg < MaxStack
       THEN /\ store' = stopScrapingReducer(store)
            /\ svc' = [svc EXCEPT !.shouldStop = TRUE, !.isPaused = FALSE]
            /\ loops' = [i \in Runs |->
                            IF Active(loops[i]) /\ loops[i].stopped = "no"
                            THEN [loops[i] EXCEPT !.stopped = store.status,
                                              !.stoppedAt = loops[i].pc]
                            ELSE loops[i]]
            /\ call' = [call EXCEPT !.arg = @ + 1]
       ELSE /\ call' = [call EXCEPT !.done = TRUE, !.ret = <<"RangeError">>]
            /\ UNCHANGED <<store, svc, loops>>
    /\ UNCHANGED <<nRuns, used>>

\* the handlers run one at a time: nothing else happens inside a handling
NextStop ==
    \/ call.done /\ PlanEdits(TRUE)
    \/ call.done /\ DispatchStart(TRUE)
    \/ call.done /\ DispatchPause(TRUE)
    \/ call.done /\ DispatchResume(TRUE)
    \/ \E i \in Runs : call.done /\ FetchOk(i)
    \/ \E i \in Runs : call.done /\ PausePoll(i)
    \/ \E i \in Runs : call.done /\ DelayDone(i)
    \/ StopRequest(TRUE)
    \/ StopDispatch

SpecStop == Init /\ [][NextStop]_vars

----------------------------------------------------------------------------
(* The functions of the service on their own: one call, its arguments drawn *)
(* at the start, applied in one step.                                       *)

Seqs(S, n) == UNION {[1..k -> S] : k \in 0..n}

Names == {"title", "price"}
Values == {<<"u">>, <<"v">>}

\* the result lists applySelector can give for the selector named key
ResultLists(key) ==
    {[i \in DOMAIN vs |-> [name |-> key, value |-> vs[i]]] :
        vs \in Seqs(Values, MaxResults)}

\* selectorResults: result lists by selector name
SelectorResultsInputs ==
    UNION {{r \in [names -> UNION {ResultLists(key) : key \in names}] :
               \A key \in names : r[key] \in ResultLists(key)} :
           names \in SUBSET Names}

\* the nodes of a page: text content, inner markup and the value of the
\* attribute asked for (NullValue when the node does not have it)
Nodes ==
    [text : {<<>>, <<"x">>, <<" ", "x", " ">>},
     html : {<<>>, <<"b">>},
     attr : {NullValue, <<>>, <<"h">>}]

\* the matches of a pattern in the raw body
Matches == {<<"m">>, <<"n">>}

SelectorInputs ==
    [name : {"title"}, type : {"css"}, multiple : BOOLEAN,
     attribute : {"text", "html", "href"}]
    \cup [name : {"title"}, type : {"regex", "xpath"}, multiple : BOOLEAN,
          attribute : {"text"}]

ApplySelectorInputs ==
    {[found |-> f, selector |-> sel] :
        f \in Seqs(Nodes, MaxFound),
        sel \in {x \in SelectorInputs : x.type # "regex"}}
    \cup {[found |-> f, selector |-> sel] :
        f \in Seqs(Matches, MaxFound),
        sel \in {x \in SelectorInputs : x.type = "regex"}}

ExpressionInputs ==
    {<<>>, <<"p">>, <<PAGE>>, <<"p", PAGE>>, <<"p", PAGE, "q", PAGE>>}

GetNextPageUrlInputs ==
    [currentUrl : {<<"a">>},
     pagination : [enabled : BOOLEAN, type : {"url", "button", "infinite"},
                   selector : ExpressionInputs, maxPages : {MaxPages}],
     nextPageNum : 2..MaxPageNum]

Pending(op, args) == {[op |-> op, arg |-> a, done |-> FALSE, ret |-> <<>>] : a \in args}

InitFn ==
    /\ store = initialState
    /\ svc = svcInit
    /\ loops = [i \in Runs |-> idleLoop]
    /\ nRuns = 0
    /\ used = [edits |-> 0, fails |-> 0]
    /\ \/ call \in Pending("structureResults", SelectorResultsInputs)
       \/ call \in Pending("applySelector", ApplySelectorInputs)
       \/ call \in Pending("getNextPageUrl", GetNextPageUrlInputs)

Return(value) ==
    /\ ~call.done
    /\ call' = [call EXCEPT !.done = TRUE, !.ret = value]
    /\ UNCHANGED <<store, svc, loops, nRuns, used>>

CallStructureResults ==
    /\ call.op = "structureResults"
    /\ Return(structureResults(call.arg))

CallApplySelector ==
    /\ call.op = "applySelector"
    /\ Return(applySelector(call.arg.found, call.arg.selector))

CallGetNextPageUrl ==
    /\ call.op = "getNextPageUrl"
    /\ Return(getNextPageUrl(call.arg.currentUrl, call.arg.pagination,
                             call.arg.nextPageNum))

NextFn ==
    \/ CallStructureResults
    \/ CallApplySelector
    \/ CallGetNextPageUrl

SpecFn == InitFn /\ [][NextFn]_vars

----------------------------------------------------------------------------
(* processSelectors on its own.  An evaluation is a selector of the plan,   *)
(* what its expression finds in the page, and whether evaluating the        *)
(* expression throws (a malformed CSS selector or regular expression).      *)

\* applySelector with its try/catch: the exception is reported through
\* handleError and the results collected so far, none, are returned
applySelectorCaught(e) ==
    IF e.throws THEN <<>> ELSE applySelector(e.found, e.selector)

\* the loop of processSelectors: selectorResults[name] is set for every
\* selector with at least one result, a later selector of the same name
\* replacing an earlier one
RECURSIVE selectorResultsOf(_)
selectorResultsOf(evals) ==
    IF evals = <<>> THEN <<>>
    ELSE LET n == Len(evals)
             before == selectorResultsOf(SubSeq(evals, 1, n - 1))
             results == applySelectorCaught(evals[n])
         IN  IF Len(results) > 0
             THEN [key \in DOMAIN before \cup {evals[n].selector.name} |->
                      IF key = evals[n].selector.name THEN results ELSE before[key]]
             ELSE before

\* the setError dispatches of the evaluations, in order
errorsOf(evals) ==
    LET thrown == {k \in DOMAIN evals : evals[k].throws}
    IN  [e \in 1..Cardinality(thrown) |-> MsgSelector]

\* a processSelectors in which the exception of a selector reaches the
\* outer catch: the page gives no items
processSelectorsAbortsPage(evals) ==
    IF \E k \in DOMAIN evals : evals[k].throws
    THEN [items |-> <<>>, errors |-> <<MsgSelector>>]
    ELSE [items |-> structureResults(selectorResultsOf(evals)),
          errors |-> <<>>]

\* processSelectors: the items of the page and the errors reported
processSelectorsItems(evals) ==
    [items |-> structureResults(selectorResultsOf(evals)),
     errors |-> errorsOf(evals)]

EvalNodes ==
    {[text |-> <<"x">>, html |-> <<"b">>, attr |-> NullValue],
     [text |-> <<" ", "y">>, html |-> <<>>, attr |-> <<"h">>]}

EvalInputs(name) ==
    {[selector |-> [name |-> name, type |-> "css", multiple |-> m, attribute |-> a],
      found |-> f, throws |-> t] :
        m \in BOOLEAN, a \in {"text", "href"}, f \in Seqs(EvalNodes, MaxFound),
        t \in BOOLEAN}
    \cup {[selector |-> [name |-> name, type |-> "regex", multiple |-> m,
                         attribute |-> "text"],
           found |-> f, throws |-> t] :
        m \in BOOLEAN, f \in Seqs(Matches, MaxFound), t \in BOOLEAN}

\* the plans of two selectors
ProcessSelectorsInputs ==
    {<<a, b>> : a \in EvalInputs("title"), b \in EvalInputs("price")}

InitSel ==
    /\ store = initialState
    /\ svc = svcInit
    /\ loops = [i \in Runs |-> idleLoop]
    /\ nRuns = 0
    /\ used = [edits |-> 0, fails |-> 0]
    /\ call \in Pending("processSelectors", ProcessSelectorsInputs)

CallProcessSelectors ==
    /\ call.op = "processSelectors"
    /\ Return(processSelectorsItems(call.arg))

NextSel == CallProcessSelectors

SpecSel == InitSel /\ [][NextSel]_vars

----------------------------------------------------------------------------
(* The match-collecting loop of the regex branch, one regex.exec per step.  *)
(* An expression is a character repeated at least min times, greedily: min  *)
(* 1 is /a+/g, min 0 is /a*/g, which also matches the empty string.         *)

MaxBody == 3
MaxMatches == 5

RegexInputs == [char : {"a"}, min : {0, 1}]
\* the bodies scrapeUrl passes on: not empty
BodyInputs == Seqs({"a", "b"}, MaxBody) \ {<<>>}

\* the number of consecutive char from index i (from 0) of body
RECURSIVE runLength(_, _, _)
runLength(body, char, i) ==
    IF i < Len(body) /\ body[i + 1] = char
    THEN 1 + runLength(body, char, i + 1)
    ELSE 0

\* regex.exec(html) of a global expression: the search starts at lastIndex;
\* a match sets lastIndex to the index after the match, which is the index
\* of the match when the match is empty; no match gives null
exec(regex, body, lastIndex) ==
    LET at == {i \in lastIndex..Len(body) : runLength(body, regex.char, i) >= regex.min}
    IN  IF at = {} THEN [match |-> NullValue, lastIndex |-> 0]
        ELSE LET i == CHOOSE j \in at : \A k \in at : j <= k
                 n == runLength(body, regex.char, i)
             IN  [match |-> SubSeq(body, i + 1, i + n), lastIndex |-> i + n]

InitRegex ==
    /\ store = initialState
    /\ svc = svcInit
    /\ loops = [i \in Runs |-> idleLoop]
    /\ nRuns = 0
    /\ used = [edits |-> 0, fails |-> 0]
    /\ \E regex \in RegexInputs, body \in BodyInputs :
          call = [op |-> "regexLoop", arg |-> [regex |-> regex, html |-> body],
                  done |-> FALSE, ret |-> [lastIndex |-> 0, matches |-> <<>>]]

\* while ((match = regex.exec(html)) !== null) matches.push(match[0])
RegexExec ==
    /\ call.op = "regexLoop"
    /\ ~call.done
    /\ Len(call.ret.matches) < MaxMatches
    /\ LET r == exec(call.arg.regex, call.arg.html, call.ret.lastIndex)
       IN  call' = IF r.match = NullValue
                   THEN [call EXCEPT !.done = TRUE, !.ret.lastIndex = r.lastIndex]
                   ELSE [call EXCEPT !.ret.lastIndex = r.lastIndex,
                                     !.ret.matches = Append(@, r.match)]
    /\ UNCHANGED <<store, svc, loops, nRuns, used>>

NextRegex == RegexExec

SpecRegex == InitRegex /\ [][NextRegex]_vars

----------------------------------------------------------------------------
(* The CSV export of the results table.  Text is a sequence of characters,  *)
(* a record is the sequence of its (name, value) properties in key order.   *)

MaxCsvRecords == 2

QUOTE == "\""
COMMA == ","
NEWLINE == "\n"

RECURSIVE join(_, _)
join(parts, sep) ==
    IF parts = <<>> THEN <<>>
    ELSE IF Len(parts) = 1 THEN parts[1]
    ELSE parts[1] \o sep \o join(Tail(parts), sep)

\* value.replace(/"/g, '""')
RECURSIVE doubleQuotes(_)
doubleQuotes(value) ==
    IF value = <<>> THEN <<>>
    ELSE (IF Head(value) = QUOTE THEN <<QUOTE, QUOTE>> ELSE <<Head(value)>>)
         \o doubleQuotes(Tail(value))

\* Object.keys(item)
keys(item) == [k \in DOMAIN item |-> item[k].name]

\* Array.from(new Set(names)): the first occurrence of each name, in order
RECURSIVE distinct(_, _)
distinct(names, seen) ==
    IF names = <<>> THEN <<>>
    ELSE IF Head(names) \in seen THEN distinct(Tail(names), seen)
    ELSE <<Head(names)>> \o distinct(Tail(names), seen \cup {Head(names)})

RECURSIVE flatten(_)
flatten(lists) ==
    IF lists = <<>> THEN <<>> ELSE Head(lists) \o flatten(Tail(lists))

\* the field of item under header: nothing for null and for a missing
\* property, the text in quotes with its quotes doubled for a string
csvField(item, header) ==
    LET at == {k \in DOMAIN item : item[k].name = header}
    IN  IF at = {} THEN <<>>
        ELSE LET value == item[CHOOSE k \in at : TRUE].value
             IN  IF value = NullValue THEN <<>>
                 ELSE <<QUOTE>> \o doubleQuotes(value) \o <<QUOTE>>

\* headers.join(','): the names as they are
csvHeader(header) == header

\* csvContent of downloadCsv (nothing is exported for an empty table)
downloadCsv(data) ==
    IF Len(data) = 0 THEN <<>>
    ELSE LET headers == distinct(flatten([r \in DOMAIN data |-> keys(data[r])]), {})
             row(item) == join([h \in DOMAIN headers |-> csvField(item, headers[h])],
                               <<COMMA>>)
         IN  join(<<join([h \in DOMAIN headers |-> csvHeader(headers[h])], <<COMMA>>)>>
                  \o [r \in DOMAIN data |-> row(data[r])],
                  <<NEWLINE>>)

CsvNames ==
    {<<"a">>, <<"b">>, <<"a", COMMA, "b">>, <<"a", NEWLINE, QUOTE, "x", QUOTE>>}

CsvValues == {<<"x">>, <<"y", QUOTE, COMMA>>, NullValue}

CsvKeys == {<<n>> : n \in CsvNames} \cup {<<(<<"a">>), (<<"b">>)>>}

\* the tables whose records have the properties named by ks, in that order
CsvTables(ks) ==
    UNION {[1..n -> {[k \in DOMAIN ks |-> [name |-> ks[k], value |-> vs[k]]] :
                        vs \in [DOMAIN ks -> CsvValues]}] :
           n \in 1..MaxCsvRecords}

CsvInputs == UNION {CsvTables(ks) : ks \in CsvKeys}

\* two tables are exported
InitCsv ==
    /\ store = initialState
    /\ svc = svcInit
    /\ loops = [i \in Runs |-> idleLoop]
    /\ nRuns = 0
    /\ used = [edits |-> 0, fails |-> 0]
    /\ call \in Pending("downloadCsv", CsvInputs \X CsvInputs)

CallDownloadCsv ==
    /\ call.op = "downloadCsv"
    /\ Return(<<downloadCsv(call.arg[1]), downloadCsv(call.arg[2])>>)

NextCsv == CallDownloadCsv

SpecCsv == InitCsv /\ [][NextCsv]_vars

\* the call of op has returned
Returned(op) == call.op = op /\ call.done

----------------------------------------------------------------------------
(* Notions the claims use *)

\* the step is a segment of crawl loop i
StepOf(i) ==
    /\ Active(loops[i])
    /\ \/ loops'[i].pc # loops[i].pc
       \/ loops'[i].fetched # loops[i].fetched

\* loop i starts the fetch of a further page in the step
BeginsPage(i) == loops'[i].pc # "done" /\ loops'[i].fetched > loops[i].fetched

\* loop i returns in the step
Ends(i) == StepOf(i) /\ loops'[i].pc = "done"

\* loop i returns after the last failing attempt of a page
Exhausts(i) == FetchFail(i) /\ loops'[i].pc = "done"

\* loop i returns through the catch block: a page gave no body
Aborts(i) == FetchEmpty(i) \/ Exhausts(i)

\* a completion is dispatched in the step
Completes == Len(store'.history) = Len(store.history) + 1

IsPrefix(s, t) == Len(s) <= Len(t) /\ SubSeq(t, 1, Len(s)) = s

RecordsOf(i, data) == {k \in DOMAIN data : data[k].run = i}

ActiveLoops == {i \in Runs : Active(loops[i])}

----------------------------------------------------------------------------
(* C1: a start with an empty address or an empty selector list is rejected  *)
(* and leaves phase, records, progress and run history as they were, and    *)
(* issues no fetch.                                                         *)
C1_RejectedStartChangesNothing ==
    [][(DispatchStart(FALSE) /\ ~PlanValid(store.config))
          => /\ store'.status = store.status
             /\ store'.data = store.data
             /\ store'.progress = store.progress
             /\ store'.history = store.history
             /\ loops' = loops]_vars

(* C2: a start with a valid plan resets RunState (no records, no error,     *)
(* progress 0/0, startedAt set, endedAt cleared), sets the phase running    *)
(* and invokes the crawl loop once: one new loop, awaiting its first fetch. *)
C2_StartResetsAndInvokesOnce ==
    [][(DispatchStart(FALSE) /\ PlanValid(store.config))
          => /\ store'.status = "running"
             /\ store'.data = <<>>
             /\ store'.error = NULL
             /\ store'.progress = [current |-> 0, total |-> 0,
                                   startTime |-> NOW, endTime |-> NULL]
             /\ \E i \in Runs :
                   /\ loops[i].pc = "idle"
                   /\ loops'[i].pc = "fetch"
                   /\ loops'[i].fetched = 1
                   /\ loops'[i].attempts = 1
                   /\ loops'[i].url = store.config.url
                   /\ \A j \in Runs \ {i} : loops'[j] = loops[j]]_vars

\* a second run has just been started after a first one that collected records
C2_Witness ==
    /\ nRuns = 2
    /\ loops[2].pc = "fetch"
    /\ loops[2].fetched = 1
    /\ loops[2].retryCount = 0
    /\ store.status = "running"
    /\ store.data = <<>>
    /\ Len(store.history) = 1
    /\ store.history[1].itemCount > 0

(* C3: with address-pattern pagination, every fetch succeeding and no stop, *)
(* a run with maxPages = N >= 1 fetches exactly N pages and ends with the   *)
(* phase completed.                                                         *)
C3_FetchesExactlyMaxPages ==
    [][\A i \in Runs :
          (/\ Ends(i)
           /\ loops[i].pagination.enabled
           /\ loops[i].pagination.type = "url"
           /\ Truthy(loops[i].pagination.selector)
           /\ loops[i].pagination.maxPages >= 1)
          => /\ loops[i].fetched = loops[i].pagination.maxPages
             /\ store'.status = "completed"]_vars

(* C4: when every attempt of a page fails and retries = 3, 4 attempts are   *)
(* made, the retries are preceded by waits of 1 s, 2 s and 4 s, and the run *)
(* ends with the phase failed and an error message.                         *)
C4_FourAttemptsThenFailed ==
    [][\A i \in Runs :
          (Exhausts(i) /\ loops[i].rateLimit.retries = 3)
          => /\ loops[i].attempts = 4
             /\ loops[i].waits = <<1000, 2000, 4000>>
             /\ store'.status = "error"
             /\ store'.error \notin {NULL, ""}]_vars

\* the only run has ended on its first page after four failing attempts
C4_Witness ==
    /\ nRuns = 1
    /\ loops[1].pc = "done"
    /\ used.fails = 4
    /\ store.config.rateLimit.retries = 3
    /\ store.data = <<>>
    /\ store.status = "error"
    /\ store.error = MsgFetchFailed

(* C5: a page whose every attempt fails is attempted exactly 1 + R times,   *)
(* R the retries of the plan's rate limit; R = 0 means a single attempt.    *)
C5_AttemptsFollowPlanRetries ==
    [][\A i \in Runs :
          Exhausts(i) => loops[i].attempts = 1 + loops[i].rateLimit.retries]_vars

(* C6: when stop is requested while the phase is paused, the phase becomes  *)
(* idle, the run never completes, no page fetch begins after the request    *)
(* and the records collected before it stay as they are.                    *)
C6_StopWhilePaused ==
    [][/\ (DispatchStop(TRUE) /\ store.status = "paused")
            => (store'.status = "idle" /\ store'.data = store.data)
       /\ \A i \in Runs :
            (StepOf(i) /\ loops[i].stopped = "paused")
            => /\ ~BeginsPage(i)
               /\ ~Completes
               /\ IsPrefix(store.data, store'.data)]_vars

(* C7: stop sets the stop flag and forces the phase idle in one step, and   *)
(* the run that was active at the request never afterwards marks the phase  *)
(* completed nor appends a history entry.                                   *)
C7_StoppedRunNeverCompletes ==
    [][/\ DispatchStop(TRUE) => (svc'.shouldStop /\ store'.status = "idle")
       /\ \A i \in Runs :
            (StepOf(i) /\ loops[i].stopped # "no")
            => /\ ~Completes
               /\ store'.status = "completed" => store.status = "completed"]_vars

(* C8: a run that exits normally with no stop requested makes the phase     *)
(* completed, sets endedAt and appends exactly one history entry, with the  *)
(* address the run crawled and the number of records the run collected.     *)
C8_CompletionEntry ==
    [][\A i \in Runs :
          (Ends(i) /\ ~Aborts(i) /\ ~svc.shouldStop)
          => /\ store'.status = "completed"
             /\ store'.progress.endTime = NOW
             /\ Completes
             /\ LET e == store'.history[Len(store'.history)]
                IN  /\ e.url = loops[i].url
                    /\ e.itemCount = Cardinality(RecordsOf(i, store'.data))]_vars

(* C9: the phase becomes failed only by a rejected configuration or by a    *)
(* page fetch that gave no body after its retries: not by a failed attempt  *)
(* that is retried, nor by a selector whose evaluation throws.              *)
C9_FailedOnlyWhenFatal ==
    [][(store'.status = "error" /\ store.status # "error")
          => \/ DispatchStart(FALSE) /\ ~PlanValid(store.config)
             \/ \E i \in Runs : Aborts(i)]_vars

(* C10: no two runs are active on the controller: at most one crawl loop    *)
(* is executing (fetching, or in a backoff, delay or pause wait).           *)
C10_OneActiveLoop == Cardinality(ActiveLoops) <= 1

(* C11: every state a store subscriber is notified with is a consistent     *)
(* snapshot: while a fetched page is processed, no notified state has the   *)
(* progress counter changed without the matching records, i.e.              *)
(* progress.current equals the number of records in each of them.           *)
C11_NoTornSnapshot ==
    [][\A i \in Runs : \A o \in PageOutcomes :
          FetchOkWith(i, o)
          => LET seen == Notified(World(loops[i]), i, o.n, o.sel)
             IN  \A k \in DOMAIN seen :
                    seen[k].progress.current = Len(seen[k].data)]_vars

\* the changes of phase the state machine of the controller allows
AllowedTransitions ==
    {<<"idle", "running">>, <<"running", "paused">>, <<"paused", "running">>,
     <<"running", "completed">>, <<"running", "error">>,
     <<"running", "idle">>, <<"paused", "idle">>,
     <<"completed", "running">>, <<"error", "running">>}

(* C12: every change of phase is idle->running, running->paused,            *)
(* paused->running, running->completed, running->failed, a stop from        *)
(* running or paused to idle, or a new start from idle, completed or failed *)
(* to running; completed and failed are left only by a start.               *)
C12_PhaseTransitions ==
    [][/\ store'.status # store.status
            => <<store.status, store'.status>> \in AllowedTransitions
       /\ (store.status \in {"completed", "error"} /\ store'.status # store.status)
            => DispatchStart(TRUE)]_vars

(* C13: in every reachable state, the phase failed (status 'error') implies *)
(* that the error message is not null.                                      *)
C13_FailedHasMessage == store.status = "error" => store.error # NULL

\* a run is waiting to retry after a network error put the phase in failed
C13_Witness ==
    /\ store.status = "error"
    /\ store.error = MsgProxyDown
    /\ \E i \in Runs : loops[i].pc = "backoff"

(* C14: within a run the record sequence only grows by appending, and it is *)
(* emptied only by the start of a new run: every step either extends the    *)
(* records or is the start of a new run, which leaves them empty.           *)
C14_RecordsOnlyGrow ==
    [][\/ IsPrefix(store.data, store'.data)
       \/ (store'.data = <<>> /\ nRuns' = nRuns + 1)]_vars

(* C15: pause() and resume() change only the phase, running -> paused and   *)
(* paused -> running: records, progress, error, history and plan are the    *)
(* same after the call as before it.                                        *)
C15_PauseResumeOnlyPhase ==
    [][/\ DispatchPause(TRUE)
            => /\ store.status = "running"
               /\ store' = [store EXCEPT !.status = "paused"]
       /\ DispatchResume(TRUE)
            => /\ store.status = "paused"
               /\ store' = [store EXCEPT !.status = "running"]]_vars

\* a run is paused with records collected and a further page to fetch
C15_Witness ==
    /\ store.status = "paused"
    /\ svc.isPaused
    /\ Len(store.data) > 0
    /\ store.progress.current = Len(store.data)
    /\ \E i \in Runs : loops[i].pc = "pause"

(* C16: when a page gives no body after its retries, the run ends in that   *)
(* step with the phase failed and a descriptive error; no record is         *)
(* appended for the page, the records of earlier pages stay, no completion  *)
(* or history entry is produced, and the loop has returned for good, so it  *)
(* fetches no later page.                                                   *)
C16_NoBodyAbortsRun ==
    [][\A i \in Runs :
          /\ Aborts(i)
                => /\ store'.status = "error"
                   /\ store'.error = MsgFetchFailed
                   /\ store'.data = store.data
                   /\ store'.history = store.history
                   /\ loops'[i].pc = "done"
          /\ loops[i].pc = "done" => loops'[i].pc = "done"]_vars

\* the only run has failed on its second page and keeps the record of the first
C16_Witness ==
    /\ nRuns = 1
    /\ loops[1].pc = "done"
    /\ used.fails = ServiceMaxRetries + 1
    /\ store.status = "error"
    /\ store.error = MsgFetchFailed
    /\ Len(store.data) = 1
    /\ store.history = <<>>

(* C17: for every mapping of selector names to result lists, the structurer *)
(* returns exactly max(1, longest result list) records; a page on which no  *)
(* selector produced a value yields exactly one record.                     *)
C17_RecordCount ==
    Returned("structureResults")
    => /\ Len(call.ret) >= 1
       /\ \A key \in DOMAIN call.arg : Len(call.ret) >= Len(call.arg[key])
       /\ \/ Len(call.ret) = 1
          \/ \E key \in DOMAIN call.arg : Len(call.ret) = Len(call.arg[key])
       /\ (\A key \in DOMAIN call.arg : call.arg[key] = <<>>) => Len(call.ret) = 1

\* no selector produced a value and the structurer has returned one record
C17_Witness ==
    /\ Returned("structureResults")
    /\ DOMAIN call.arg = {}
    /\ Len(call.ret) = 1

(* C18: the value of selector name in record i is the selector's i-th       *)
(* result if it has one; otherwise its only result if it produced exactly   *)
(* one; otherwise null.                                                     *)
C18_RecordValues ==
    Returned("structureResults")
    => \A i \in DOMAIN call.ret :
          /\ DOMAIN call.ret[i] = DOMAIN call.arg
          /\ \A key \in DOMAIN call.arg :
                /\ i <= Len(call.arg[key])
                      => call.ret[i][key] = call.arg[key][i].value
                /\ (i > Len(call.arg[key]) /\ Len(call.arg[key]) = 1)
                      => call.ret[i][key] = call.arg[key][1].value
                /\ (i > Len(call.arg[key]) /\ Len(call.arg[key]) # 1)
                      => call.ret[i][key] = NullValue

\* three prices and one title: the title is repeated in the three records
C18_Witness ==
    /\ Returned("structureResults")
    /\ DOMAIN call.arg = Names
    /\ Len(call.arg["price"]) = 3
    /\ Len(call.arg["title"]) = 1
    /\ Len(call.ret) = 3
    /\ \A i \in 1..3 : call.ret[i]["title"] = call.arg["title"][1].value

(* C19: a structural or pattern selector with multiple = false returns at   *)
(* most one value, and a value it returns is the one of the first match.    *)
C19_SingleFromFirstMatch ==
    (/\ Returned("applySelector")
     /\ call.arg.selector.type \in {"css", "regex"}
     /\ ~call.arg.selector.multiple)
    => /\ Len(call.ret) <= 1
       /\ Len(call.ret) = 1
            => /\ Len(call.arg.found) >= 1
               /\ call.ret[1].value =
                     IF call.arg.selector.type = "css"
                     THEN extractValueFromElement(call.arg.found[1],
                                                  call.arg.selector.attribute)
                     ELSE call.arg.found[1]

\* two nodes with different text match and the value is the first one's
C19_Witness ==
    /\ Returned("applySelector")
    /\ call.arg.selector.type = "css"
    /\ ~call.arg.selector.multiple
    /\ call.arg.selector.attribute = "text"
    /\ Len(call.arg.found) = 2
    /\ call.arg.found[1].text = <<" ", "x", " ">>
    /\ call.arg.found[2].text = <<>>
    /\ Len(call.ret) = 1
    /\ call.ret[1].value = <<"x">>

RECURSIVE replaceAll(_, _, _)
\* s with every occurrence of tok replaced
replaceAll(s, tok, by) ==
    IF s = <<>> THEN <<>>
    ELSE (IF Head(s) = tok THEN by ELSE <<Head(s)>>) \o replaceAll(Tail(s), tok, by)

RECURSIVE Decimal(_)
\* the number the digit sequence d writes in base ten
Decimal(d) ==
    IF d = <<>> THEN 0
    ELSE 10 * Decimal(SubSeq(d, 1, Len(d) - 1))
         + (CHOOSE k \in 0..9 : Digits[k + 1] = d[Len(d)])

(* C20: in address-pattern mode, pagination enabled and the expression not  *)
(* empty, the resolver returns the expression with the {page} placeholder   *)
(* replaced by the decimal page index, and never returns none.              *)
C20_PatternResolved ==
    (/\ Returned("getNextPageUrl")
     /\ call.arg.pagination.enabled
     /\ call.arg.pagination.type = "url"
     /\ call.arg.pagination.selector # <<>>)
    => /\ Truthy(call.ret)
       /\ \E d \in Seqs({Digits[k] : k \in 1..10}, 2) :
             /\ d # <<>>
             /\ Decimal(d) = call.arg.nextPageNum
             /\ call.ret = replaceAll(call.arg.pagination.selector, PAGE, d)

\* the resolver has no next address for the plan
NoNextPage(pagination) ==
    \/ ~pagination.enabled
    \/ ~Truthy(pagination.selector)
    \/ pagination.type \in {"button", "infinite"}

SupportedTypes == {"css", "regex"}

(* C22: a plan with a selector of a kind that is not supported is rejected  *)
(* with a configuration error before the run starts: the start leaves the   *)
(* phase failed with the configuration message and no crawl loop begins.    *)
C22_UnknownKindRejected ==
    [][(/\ DispatchStart(TRUE)
        /\ \E k \in DOMAIN store.config.selectors :
               store.config.selectors[k].type \notin SupportedTypes)
          => /\ store'.status = "error"
             /\ store'.error = MsgConfig
             /\ loops' = loops]_vars

(* C23: when the plan's request delay is positive, a run starts the fetch   *)
(* of a page after its first only in the step in which the delay timer,     *)
(* set after the previous page was processed, fires.                        *)
C23_DelayBetweenPages ==
    [][\A i \in Runs :
          (/\ BeginsPage(i)
           /\ loops[i].fetched >= 1
           /\ loops[i].rateLimit.requestDelay > 0)
          => /\ loops[i].pc = "delay"
             /\ DelayDone(i)]_vars

C23_Witness ==
    \E i \in Runs : /\ loops[i].pc = "fetch"
                     /\ loops[i].fetched = 2
                     /\ loops[i].rateLimit.requestDelay = InitRequestDelay

\* no property of the table is null
NoNull(data) ==
    \A r \in DOMAIN data : \A k \in DOMAIN data[r] : data[r][k].value # NullValue

(* C24: the records can be read back from the exported text, whatever the   *)
(* names and string values contain: the text determines the records, so two *)
(* different tables of string fields are never exported to the same text.   *)
C24_ExportDeterminesRecords ==
    (/\ Returned("downloadCsv")
     /\ NoNull(call.arg[1]) /\ NoNull(call.arg[2])
     /\ call.ret[1] = call.ret[2])
    => call.arg[1] = call.arg[2]

(* C25: the handling of one stop request ends after a bounded number of     *)
(* stopScraping actions: the middleware calling stop() and stop()           *)
(* dispatching the action do not nest until the call stack is exhausted.    *)
C25_StopHandlingBounded ==
    call.op = "stopScraping" => (call.arg < MaxStack /\ call.ret # <<"RangeError">>)

(* C26: a run whose stop was requested during a retry backoff wait or       *)
(* during the delay between pages starts no fetch attempt when the wait     *)
(* ends, neither a retry of the current page nor the fetch of a next page.  *)
C26_StopObservedAfterWait ==
    [][\A i \in Runs :
          (/\ loops[i].pc \in {"backoff", "delay"}
           /\ loops[i].stoppedAt = loops[i].pc
           /\ BackoffDone(i) \/ DelayDone(i))
          => loops'[i].pc # "fetch"]_vars

(* C27: no run begins the fetch of a page while the phase is paused: the    *)
(* pause check precedes every page fetch, so a paused run starts its next   *)
(* fetch only after resume().                                               *)
C27_NoFetchBeginsWhilePaused ==
    [][\A i \in Runs : BeginsPage(i) => store'.status # "paused"]_vars

(* C28: after stop() has forced the phase idle and until the next start,    *)
(* the stopped run changes nothing in the run state: the phase stays idle   *)
(* and no records, progress or error of a page in flight at the stop are    *)
(* written.                                                                 *)
C28_StoppedRunWritesNothing ==
    [][\A i \in Runs :
          (/\ StepOf(i)
           /\ loops[i].stopped # "no"
           /\ svc.shouldStop
           /\ store.status = "idle")
          => store' = store]_vars

\* every pause is followed by a resume or a stop
PausesEnd == [](svc.isPaused => <>~svc.isPaused)

(* C29: when every request returns and every pause is followed by a resume  *)
(* or a stop, every started run with pagination disabled or a page limit    *)
(* of at least one eventually ends: its crawl loop returns.                  *)
C29_EveryRunEnds ==
    PausesEnd =>
        \A i \in Runs :
            [](/\ Active(loops[i])
               /\ ~loops[i].pagination.enabled \/ loops[i].pagination.maxPages >= 1
               => <>(loops[i].pc = "done"))

RECURSIVE Sound(_)
Sound(evals) ==
    IF evals = <<>> THEN <<>>
    ELSE (IF Head(evals).throws THEN <<>> ELSE <<Head(evals)>>) \o Sound(Tail(evals))

C32_OneValuePerNode ==
    (/\ Returned("applySelector")
     /\ call.arg.selector.type = "css"
     /\ call.arg.selector.multiple)
    => /\ Len(call.ret) = Len(call.arg.found)
       /\ \A i \in DOMAIN call.ret :
             call.ret[i].value =
                 CASE call.arg.selector.attribute = "text" -> trim(call.arg.found[i].text)
                   [] call.arg.selector.attribute = "html" -> call.arg.found[i].html
                   [] OTHER -> call.arg.found[i].attr

(* C33: a pattern selector whose expression matches k >= 1 times in the     *)
(* body returns, with multiple = true, the k matches as k values in order   *)
(* of occurrence, and with multiple = false the first match only.           *)
C33_PatternMatchesAsValues ==
    (/\ Returned("applySelector")
     /\ call.arg.selector.type = "regex"
     /\ Len(call.arg.found) >= 1)
    => IF call.arg.selector.multiple
       THEN /\ Len(call.ret) = Len(call.arg.found)
            /\ \A i \in DOMAIN call.ret : call.ret[i].value = call.arg.found[i]
       ELSE /\ Len(call.ret) = 1
            /\ call.ret[1].value = call.arg.found[1]

\* the kinds of failure the error report tells apart
FailureClass(kind) ==
    CASE kind \in {"502", "504"} -> "gateway"
      [] kind = "network" -> "network"
      [] OTHER -> "status"

\* the store a run leaves when the attempt in flight fails with kind
StoreAfterFailure(i, kind) == fetchUrlCatch(World(loops[i]), kind).store

(* C34: when the last attempt of a page fails, the run ends in the failed   *)
(* phase whatever the kind of failure, and the error message it ends with   *)
(* differs between a gateway failure (502/504), an unreachable network and  *)
(* another HTTP status.                                                     *)
C34_FinalMessageTellsKind ==
    \A i \in Runs :
        (loops[i].pc = "fetch" /\ loops[i].retryCount >= maxRetries)
        => \A k1, k2 \in FailKinds :
              /\ StoreAfterFailure(i, k1).status = "error"
              /\ FailureClass(k1) # FailureClass(k2)
                 => StoreAfterFailure(i, k1).error # StoreAfterFailure(i, k2).error

(* C35: the match-collecting loop of a pattern selector terminates for      *)
(* every expression and body: every iteration that finds a match advances   *)
(* through the body, so the matches collected are never more than the       *)
(* positions of the body.                                                   *)
C35_RegexLoopAdvances ==
    [][RegexExec =>
          /\ call'.done \/ call'.ret.lastIndex > call.ret.lastIndex
          /\ Len(call'.ret.matches) <= Len(call.arg.html) + 1]_vars

\* loop i follows an address pattern
UrlPattern(i) ==
    /\ loops[i].pagination.enabled
    /\ loops[i].pagination.type = "url"
    /\ Truthy(loops[i].pagination.selector)

(* C36: in a run with address-pattern pagination the first page requested   *)
(* is the plan's address and the k-th page requested, k >= 2, is what the   *)
(* resolver gives for the pattern and index k: the indices go 2, 3, 4, ...  *)
(* with none skipped and none requested for two pages.                      *)
C36_PageIndicesInOrder ==
    \A i \in Runs :
        (loops[i].pc \in {"fetch", "backoff"} /\ UrlPattern(i))
        => /\ loops[i].fetched >= 1
           /\ loops[i].target =
                 IF loops[i].fetched = 1
                 THEN loops[i].url
                 ELSE getNextPageUrl(loops[i].url, loops[i].pagination,
                                     loops[i].fetched)

C36_Witness ==
    \E i \in Runs : /\ loops[i].pc = "fetch"
                     /\ UrlPattern(i)
                     /\ loops[i].fetched = MaxFetched
                     /\ loops[i].target = <<"p", "4">>

(* C37: a run with address-pattern pagination and maxPages 0 is not ended   *)
(* by a page count: its loop returns only after a stop request or on a      *)
(* page whose fetch failed for good.                                        *)
C37_UnlimitedEndsByStopOrFailure ==
    [][\A i \in Runs :
          (Ends(i) /\ UrlPattern(i) /\ loops[i].pagination.maxPages = 0)
          => (Aborts(i) \/ loops[i].stopped # "no")]_vars

(* C38: a response with status 200 and an empty body ends the run in the    *)
(* step that receives it: no backoff and no further attempt for the page,   *)
(* the phase becomes failed, and the records and the progress are those of  *)
(* before the page.                                                         *)
C38_EmptyBodyFailsWithoutRetry ==
    [][\A i \in Runs :
          FetchEmpty(i)
          => /\ loops'[i].pc = "done"
             /\ store'.status = "error"
             /\ store'.data = store.data
             /\ store'.progress = store.progress]_vars

\* the second page of the only run came back empty on its first attempt
C38_Witness ==
    /\ nRuns = 1
    /\ loops[1].pc = "done"
    /\ used.fails = 0
    /\ store.status = "error"
    /\ store.error = MsgFetchFailed
    /\ Len(store.data) = 1

\* the ids of a selector list
Ids(sels) == {sels[k].id : k \in DOMAIN sels}

\* a reducer's step leaves everything of the store but the selector list
SelectorsOnly ==
    store' = [store EXCEPT !.config.selectors = store'.config.selectors]

(* C39: the selector reducers change only the selector list of the plan.    *)
(* addSelector puts one selector with an id no other has after the          *)
(* existing ones; updateSelector replaces in place the selector of the      *)
(* payload's id and changes nothing for an id the list does not have;       *)
(* removeSelector takes out the selector of that id and keeps the others    *)
(* in their order; phase, records, progress, error and history stay.        *)
C39_PlanEditsChangeOnlyPlan ==
    [][LET old == store.config.selectors
           new == store'.config.selectors
       IN  /\ PlanAddSelector
                => /\ SelectorsOnly
                   /\ Len(new) = Len(old) + 1
                   /\ SubSeq(new, 1, Len(old)) = old
                   /\ new[Len(new)].id \notin Ids(old)
                   /\ new[Len(new)].type = "css"
           /\ \A id \in 1..MaxSelectorId, t \in {"css", "regex"} :
                PlanUpdateSelectorOf([id |-> id, type |-> t])
                => /\ SelectorsOnly
                   /\ new = [k \in DOMAIN old |->
                                IF old[k].id = id
                                THEN [id |-> id, type |-> t]
                                ELSE old[k]]
           /\ \A id \in 1..MaxSelectorId :
                PlanRemoveSelectorOf(id)
                => /\ SelectorsOnly
                   /\ new = SelectSeq(old, LAMBDA x : x.id # id)
                   /\ Len(new) = Len(old) - (IF id \in Ids(old) THEN 1 ELSE 0)]_vars

\* after a completed run the list holds the first selector, updated, and the
\* third: the second was removed from between them
C39_Witness ==
    /\ store.config.selectors = <<[id |-> 1, type |-> "regex"], [id |-> 3, type |-> "css"]>>
    /\ store.status = "completed"
    /\ Len(store.data) = 1
    /\ Len(store.history) = 1

====
